---- MODULE Spec2Model ----
(***************************************************************************)
(* QSFP-DD EEPROM decoding (qsfp-dd.c / qsfp-dd.h).                        *)
(*                                                                         *)
(* One behaviour is one call of qsfp_dd_show_all(id, eeprom_len): the ten  *)
(* qsfp_dd_show_* calls run in program order, one action each.  The state  *)
(* records the memory the pointer id gives access to, the declared length, *)
(* the byte indexes read so far, the lines printed so far and the local    *)
(* struct qsfp_dd_diags of qsfp_dd_show_sig_optical_pwr.                   *)
(*                                                                         *)
(* id[o] with o >= eeprom_len is a read past the buffer: undefined         *)
(* behaviour.  It either yields whatever the adjacent memory holds (any    *)
(* byte, fixed in Init) or faults, which ends the call (status "fault",    *)
(* with pc left at the call that faulted).                                 *)
(***************************************************************************)
EXTENDS Integers, Sequences, FiniteSets, TLC

VARIABLES id, eeprom_len, pc, status, reads, out, sd, parsed

vars == <<id, eeprom_len, pc, status, reads, out, sd, parsed>>

(***************************************************************************)
(* Bounds of the model.                                                    *)
(***************************************************************************)
\* Fill patterns 0..MaxSeed for the bytes a buffer family does not vary.
MaxSeed == 1

(***************************************************************************)
(* qsfp-dd.h                                                               *)
(***************************************************************************)
QSFP_DD_PAG_SIZE == 128
QSFP_DD_EEPROM_5PAG == QSFP_DD_PAG_SIZE * 6
QSFP_DD_MAX_CHANNELS == 8
QSFP_DD_READ_TX == 0
QSFP_DD_READ_RX == 1

HA == 0
LA == 1
HW == 2
LW == 3

QSFP_DD_ID_OFFSET == 0
QSFP_DD_REV_COMPLIANCE_OFFSET == 1

QSFP_DD_MODULE_TYPE_OFFSET == 85
QSFP_DD_MT_MMF == 1
QSFP_DD_MT_SMF == 2

QSFP_DD_CURR_TEMP_OFFSET == 14
QSFP_DD_CURR_CURR_OFFSET == 16

QSFP_DD_CTOR_OFFSET == 203

QSFP_DD_VENDOR_NAME_START_OFFSET == 129
QSFP_DD_VENDOR_NAME_END_OFFSET == 144
QSFP_DD_VENDOR_OUI_OFFSET == 145
QSFP_DD_VENDOR_PN_START_OFFSET == 148
QSFP_DD_VENDOR_PN_END_OFFSET == 163
QSFP_DD_VENDOR_REV_START_OFFSET == 164
QSFP_DD_VENDOR_REV_END_OFFSET == 165
QSFP_DD_VENDOR_SN_START_OFFSET == 166
QSFP_DD_VENDOR_SN_END_OFFSET == 181
QSFP_DD_DATE_YEAR_OFFSET == 182
QSFP_DD_DATE_VENDOR_LOT_OFFSET == 189

QSFP_DD_CLEI_PRESENT_BYTE == 2
QSFP_DD_CLEI_PRESENT_MASK == 32
QSFP_DD_CLEI_START_OFFSET == 190
QSFP_DD_CLEI_END_OFFSET == 199

QSFP_DD_CBL_ASM_LEN_OFFSET == 202
QSFP_DD_6300M_MAX_LEN == 255

QSFP_DD_MULTIPLIER_00 == 0
QSFP_DD_MULTIPLIER_01 == 64
QSFP_DD_MULTIPLIER_10 == 128
QSFP_DD_MULTIPLIER_11 == 192
QSFP_DD_LEN_MUL_MASK == 192
QSFP_DD_LEN_VAL_MASK == 63

QSFP_DD_PWR_CLASS_OFFSET == 200
QSFP_DD_PWR_MAX_POWER_OFFSET == 201

QSFP_DD_COPPER_ATT_5GHZ == 204
QSFP_DD_COPPER_ATT_7GHZ == 205
QSFP_DD_COPPER_ATT_12P9GHZ == 206
QSFP_DD_COPPER_ATT_25P8GHZ == 207

QSFP_DD_MEDIA_INTF_TECH_OFFSET == 212
QSFP_DD_COPPER_UNEQUAL == 10

PAG01H_OFFSET == 1 * QSFP_DD_PAG_SIZE
QSFP_DD_SMF_LEN_OFFSET == PAG01H_OFFSET + 132
QSFP_DD_OM5_LEN_OFFSET == PAG01H_OFFSET + 133
QSFP_DD_OM4_LEN_OFFSET == PAG01H_OFFSET + 134
QSFP_DD_OM3_LEN_OFFSET == PAG01H_OFFSET + 135
QSFP_DD_OM2_LEN_OFFSET == PAG01H_OFFSET + 136
QSFP_DD_NOM_WAVELENGTH_MSB == PAG01H_OFFSET + 138
QSFP_DD_NOM_WAVELENGTH_LSB == PAG01H_OFFSET + 139
QSFP_DD_WAVELENGTH_TOL_MSB == PAG01H_OFFSET + 140
QSFP_DD_WAVELENGTH_TOL_LSB == PAG01H_OFFSET + 141
QSFP_DD_SIG_INTEG_TX_OFFSET == PAG01H_OFFSET + 161
QSFP_DD_SIG_INTEG_RX_OFFSET == PAG01H_OFFSET + 162

PAG02H_OFFSET == 2 * QSFP_DD_PAG_SIZE
QSFP_DD_TEMP_THRS_START_OFFSET == PAG02H_OFFSET + 128
QSFP_DD_VOLT_THRS_START_OFFSET == PAG02H_OFFSET + 136
QSFP_DD_TXPW_THRS_START_OFFSET == PAG02H_OFFSET + 176
QSFP_DD_TXBI_THRS_START_OFFSET == PAG02H_OFFSET + 184
QSFP_DD_RXPW_THRS_START_OFFSET == PAG02H_OFFSET + 192

PAG11H_OFFSET_index3 == 3 * QSFP_DD_PAG_SIZE
PAG11H_OFFSET == 4 * QSFP_DD_PAG_SIZE
QSFP_DD_TX_PWR_START_OFFSET == PAG11H_OFFSET + 154
QSFP_DD_TX_BIAS_START_OFFSET == PAG11H_OFFSET + 170
QSFP_DD_RX_PWR_START_OFFSET == PAG11H_OFFSET + 186

QSFP_DD_TX_HA_OFFSET == PAG11H_OFFSET + 139
QSFP_DD_TX_LA_OFFSET == PAG11H_OFFSET + 140
QSFP_DD_TX_HW_OFFSET == PAG11H_OFFSET + 141
QSFP_DD_TX_LW_OFFSET == PAG11H_OFFSET + 142
QSFP_DD_RX_HA_OFFSET == PAG11H_OFFSET + 149
QSFP_DD_RX_LA_OFFSET == PAG11H_OFFSET + 150
QSFP_DD_RX_HW_OFFSET == PAG11H_OFFSET + 151
QSFP_DD_RX_LW_OFFSET == PAG11H_OFFSET + 152

(***************************************************************************)
(* C arithmetic on __u8 / __u16 / int values.                              *)
(***************************************************************************)
Byte == 0..255
Channels == 0..(QSFP_DD_MAX_CHANNELS - 1)
Classes == {HA, LA, HW, LW}

RECURSIVE BitAnd(_, _)
\* x & y
BitAnd(x, y) ==
    IF x = 0 \/ y = 0 THEN 0
    ELSE (x % 2) * (y % 2) + 2 * BitAnd(x \div 2, y \div 2)

RECURSIVE Pow2(_)
Pow2(n) == IF n = 0 THEN 1 ELSE 2 * Pow2(n - 1)

\* x << n and x >> n on non-negative int values
ShiftL(x, n) == x * Pow2(n)
ShiftR(x, n) == x \div Pow2(n)

\* x | y for operands with no common bit, as in (msb << 8) | lsb
BitOr(x, y) == x + y - BitAnd(x, y)

\* (__s16)x for x in 0..65535
ToS16(x) == IF x >= 32768 THEN x - 65536 ELSE x

\* OFFSET_TO_U16(offset): id[offset] << 8 | id[offset + 1]
OFFSET_TO_U16(mem, offset) == BitOr(ShiftL(mem[offset], 8), mem[offset + 1])

\* OFFSET_TO_TEMP(offset): ((__s16)OFFSET_TO_U16(offset))
OFFSET_TO_TEMP_unsigned(mem, offset) == OFFSET_TO_U16(mem, offset)
OFFSET_TO_TEMP(mem, offset) == ToS16(OFFSET_TO_U16(mem, offset))

\* YESNO(x) / ONOFF(x): 1 for "Yes"/"On", 0 for "No"/"Off"
YESNO(x) == IF x # 0 THEN 1 ELSE 0
ONOFF(x) == IF x # 0 THEN 1 ELSE 0

(***************************************************************************)
(* Printed lines and the reads that precede them.                          *)
(* A line is [f: name, ch: channel printed (0 when none), k: unit, v].     *)
(* An item is the byte indexes read, in order, and the lines printed once  *)
(* they have been read.                                                    *)
(***************************************************************************)
Line(f, ch, k, v) == [f |-> f, ch |-> ch, k |-> k, v |-> v]
Item(offs, flds) == [offs |-> offs, flds |-> flds]

RECURSIVE AllFlds(_)
AllFlds(items) ==
    IF items = <<>> THEN <<>> ELSE Head(items).flds \o AllFlds(Tail(items))

Range(s) == {s[i] : i \in DOMAIN s}

AllOffs(items) == UNION {Range(items[i].offs) : i \in DOMAIN items}

\* The read at index o leaves the eeprom_len bytes that were handed in.
OutOfBuffer(o, len) == o >= len

HasOOB(items, len) == {o \in AllOffs(items) : OutOfBuffer(o, len)} # {}

\* Index of the first item with a read past the buffer.
FirstOOBItem(items, len) ==
    CHOOSE i \in DOMAIN items :
        /\ \E o \in Range(items[i].offs) : OutOfBuffer(o, len)
        /\ \A j \in 1..(i - 1) : \A o \in Range(items[j].offs) : ~OutOfBuffer(o, len)

\* The reads of one item up to and including its first read past the buffer.
OffsUntilOOB(offs, len) ==
    LET k == CHOOSE i \in DOMAIN offs :
                 /\ OutOfBuffer(offs[i], len)
                 /\ \A j \in 1..(i - 1) : ~OutOfBuffer(offs[j], len)
    IN {offs[i] : i \in 1..k}

(***************************************************************************)
(* sff-common.c helpers used by qsfp-dd.c.                                 *)
(***************************************************************************)
\* sff8024_show_identifier(id, id_offset): prints the byte at id_offset.
sff8024_show_identifier(mem, id_offset) ==
    <<Item(<<id_offset>>, <<Line("Identifier", 0, "u8", mem[id_offset])>>)>>

\* sff8024_show_connector(id, ctor_offset): prints the byte at ctor_offset.
sff8024_show_connector(mem, ctor_offset) ==
    <<Item(<<ctor_offset>>, <<Line("Connector", 0, "u8", mem[ctor_offset])>>)>>

\* sff8024_show_oui(id, id_offset): prints the three bytes from id_offset.
sff8024_show_oui(mem, id_offset) ==
    <<Item(<<id_offset, id_offset + 1, id_offset + 2>>,
           <<Line("Vendor OUI", 0, "u24",
                  mem[id_offset] * 65536 + mem[id_offset + 1] * 256
                      + mem[id_offset + 2])>>)>>

RECURSIVE TrimLast(_, _, _)
\* while (first_reg <= last_reg && id[last_reg] == ' ') last_reg--;
TrimLast(mem, first_reg, last_reg) ==
    IF first_reg <= last_reg /\ mem[last_reg] = 32
    THEN TrimLast(mem, first_reg, last_reg - 1)
    ELSE last_reg

\* sff_show_ascii(id, first_reg, last_reg, name): the bytes first_reg..last_reg
\* with the trailing blanks dropped; v is the number of characters printed.
sff_show_ascii(mem, first_reg, last_reg, name) ==
    <<Item([i \in 1..(last_reg - first_reg + 1) |-> first_reg + i - 1],
           <<Line(name, 0, "chars",
                  TrimLast(mem, first_reg, last_reg) - first_reg + 1)>>)>>

\* sff_show_value_with_unit(id, reg, name, mult, unit): id[reg] * mult.
sff_show_value_with_unit(mem, reg, name, mult, unit) ==
    <<Item(<<reg>>, <<Line(name, 0, unit, mem[reg] * mult)>>)>>

(***************************************************************************)
(* qsfp-dd.c, in the order of qsfp_dd_show_all.                            *)
(***************************************************************************)
IdentifierItems(mem) == sff8024_show_identifier(mem, QSFP_DD_ID_OFFSET)

ConnectorItems(mem) == sff8024_show_connector(mem, QSFP_DD_CTOR_OFFSET)

OuiItems(mem) == sff8024_show_oui(mem, QSFP_DD_VENDOR_OUI_OFFSET)

\* qsfp_dd_show_rev_compliance: major.minor from the two nibbles.
RevComplianceItems(mem) ==
    LET rev == mem[QSFP_DD_REV_COMPLIANCE_OFFSET]
        major == BitAnd(ShiftR(rev, 4), 15)
        minor == BitAnd(rev, 15)
    IN <<Item(<<QSFP_DD_REV_COMPLIANCE_OFFSET>>,
              <<Line("Revision compliance major", 0, "int", major),
                Line("Revision compliance minor", 0, "int", minor)>>)>>

\* qsfp_dd_show_power_info: class is the top 3 bits plus one; max power is
\* base_power * 0.25f printed with two decimals, here in 0.01 W.
PowerInfoItems(mem) ==
    LET power_class == BitAnd(ShiftR(mem[QSFP_DD_PWR_CLASS_OFFSET], 5), 7)
        base_power == mem[QSFP_DD_PWR_MAX_POWER_OFFSET]
    IN <<Item(<<QSFP_DD_PWR_CLASS_OFFSET, QSFP_DD_PWR_MAX_POWER_OFFSET>>,
              <<Line("Power class", 0, "int", power_class + 1),
                Line("Max power", 0, "W_e2", base_power * 25)>>)>>

\* if (id[QSFP_DD_CBL_ASM_LEN_OFFSET] == QSFP_DD_6300M_MAX_LEN)
CblIsMaxLen_masked(b) ==
    BitAnd(b, QSFP_DD_LEN_VAL_MASK) = BitAnd(QSFP_DD_6300M_MAX_LEN, QSFP_DD_LEN_VAL_MASK)
CblIsMaxLen(b) == b = QSFP_DD_6300M_MAX_LEN

\* The switch of qsfp_dd_show_cbl_asm_len on the top two bits.  mul is a
\* float among 0.1f, 1.0f, 10.0f, 100.0f; the product with a magnitude of
\* at most 63 is printed with "%0.2f", which shows magnitude * mul to two
\* decimals, so the multiplier is kept in units of 0.01 km.
CblMul_two_cases(b) ==
    LET m == BitAnd(b, QSFP_DD_LEN_MUL_MASK)
    IN IF m = QSFP_DD_MULTIPLIER_00 THEN 10 ELSE 100
CblMul(b) ==
    LET m == BitAnd(b, QSFP_DD_LEN_MUL_MASK)
    IN CASE m = QSFP_DD_MULTIPLIER_00 -> 10
         [] m = QSFP_DD_MULTIPLIER_01 -> 100
         [] m = QSFP_DD_MULTIPLIER_10 -> 1000
         [] m = QSFP_DD_MULTIPLIER_11 -> 10000
         [] OTHER -> 100

\* qsfp_dd_show_cbl_asm_len: "> 6.3km" for the reserved byte, else the
\* low six bits times the multiplier.
CblAsmLenItems(mem) ==
    LET b == mem[QSFP_DD_CBL_ASM_LEN_OFFSET]
    IN IF CblIsMaxLen(b)
       THEN <<Item(<<QSFP_DD_CBL_ASM_LEN_OFFSET>>,
                   <<Line("Cable assembly length", 0, "gt_6.3km", 0)>>)>>
       ELSE <<Item(<<QSFP_DD_CBL_ASM_LEN_OFFSET>>,
                   <<Line("Cable assembly length", 0, "km_e2",
                          BitAnd(b, QSFP_DD_LEN_VAL_MASK) * CblMul(b))>>)>>

\* The switch of qsfp_dd_print_smf_cbl_len: only the cases 00 and 01; any
\* other code leaves mul at its initial 1.0f.
SmfMul(b) ==
    LET m == BitAnd(b, QSFP_DD_LEN_MUL_MASK)
    IN CASE m = QSFP_DD_MULTIPLIER_00 -> 10
         [] m = QSFP_DD_MULTIPLIER_01 -> 100
         [] OTHER -> 100

\* qsfp_dd_print_smf_cbl_len
SmfCblLenItems(mem) ==
    LET b == mem[QSFP_DD_SMF_LEN_OFFSET]
    IN <<Item(<<QSFP_DD_SMF_LEN_OFFSET>>,
              <<Line("Length (SMF)", 0, "km_e2",
                     BitAnd(b, QSFP_DD_LEN_VAL_MASK) * SmfMul(b))>>)>>

\* qsfp_dd_show_sig_integrity: four lines, each reading its byte anew.
SigIntegrityItems(mem) ==
    <<Item(<<QSFP_DD_SIG_INTEG_TX_OFFSET>>,
           <<Line("Tx CDR bypass control", 0, "yesno",
                  YESNO(BitAnd(mem[QSFP_DD_SIG_INTEG_TX_OFFSET], 2)))>>),
      Item(<<QSFP_DD_SIG_INTEG_RX_OFFSET>>,
           <<Line("Rx CDR bypass control", 0, "yesno",
                  YESNO(BitAnd(mem[QSFP_DD_SIG_INTEG_RX_OFFSET], 2)))>>),
      Item(<<QSFP_DD_SIG_INTEG_TX_OFFSET>>,
           <<Line("Tx CDR", 0, "yesno",
                  YESNO(BitAnd(mem[QSFP_DD_SIG_INTEG_TX_OFFSET], 1)))>>),
      Item(<<QSFP_DD_SIG_INTEG_RX_OFFSET>>,
           <<Line("Rx CDR", 0, "yesno",
                  YESNO(BitAnd(mem[QSFP_DD_SIG_INTEG_RX_OFFSET], 1)))>>)>>

\* if (id[QSFP_DD_MEDIA_INTF_TECH_OFFSET] >= QSFP_DD_COPPER_UNEQUAL)
MitIsCopper_gt(tech) == tech > QSFP_DD_COPPER_UNEQUAL
MitIsCopper(tech) == tech >= QSFP_DD_COPPER_UNEQUAL

\* qsfp_dd_show_mit_compliance: the technology byte, then either the four
\* attenuation bytes or the two wavelength words (value * 0.05 and * 0.005
\* printed with three decimals, here in 0.001 nm).
MitComplianceItems(mem) ==
    LET tech == mem[QSFP_DD_MEDIA_INTF_TECH_OFFSET]
    IN <<Item(<<QSFP_DD_MEDIA_INTF_TECH_OFFSET>>,
              <<Line("Transmitter technology", 0, "u8", tech)>>)>>
       \o
       IF MitIsCopper(tech)
       THEN <<Item(<<QSFP_DD_COPPER_ATT_5GHZ>>,
                   <<Line("Attenuation at 5GHz", 0, "db",
                          mem[QSFP_DD_COPPER_ATT_5GHZ])>>),
              Item(<<QSFP_DD_COPPER_ATT_7GHZ>>,
                   <<Line("Attenuation at 7GHz", 0, "db",
                          mem[QSFP_DD_COPPER_ATT_7GHZ])>>),
              Item(<<QSFP_DD_COPPER_ATT_12P9GHZ>>,
                   <<Line("Attenuation at 12.9GHz", 0, "db",
                          mem[QSFP_DD_COPPER_ATT_12P9GHZ])>>),
              Item(<<QSFP_DD_COPPER_ATT_25P8GHZ>>,
                   <<Line("Attenuation at 25.8GHz", 0, "db",
                          mem[QSFP_DD_COPPER_ATT_25P8GHZ])>>)>>
       ELSE <<Item(<<QSFP_DD_NOM_WAVELENGTH_MSB, QSFP_DD_NOM_WAVELENGTH_LSB>>,
                   <<Line("Laser wavelength", 0, "nm_e3",
                          BitOr(ShiftL(mem[QSFP_DD_NOM_WAVELENGTH_MSB], 8),
                                mem[QSFP_DD_NOM_WAVELENGTH_LSB]) * 50)>>),
              Item(<<QSFP_DD_WAVELENGTH_TOL_MSB, QSFP_DD_WAVELENGTH_TOL_LSB>>,
                   <<Line("Laser wavelength tolerance", 0, "nm_e3",
                          BitOr(ShiftL(mem[QSFP_DD_WAVELENGTH_TOL_MSB], 8),
                                mem[QSFP_DD_WAVELENGTH_TOL_LSB]) * 5)>>)>>

\* qsfp_dd_show_link_len
LinkLenItems(mem) ==
    SmfCblLenItems(mem)
    \o sff_show_value_with_unit(mem, QSFP_DD_OM5_LEN_OFFSET, "Length (OM5)", 2, "m")
    \o sff_show_value_with_unit(mem, QSFP_DD_OM4_LEN_OFFSET, "Length (OM4)", 2, "m")
    \o sff_show_value_with_unit(mem, QSFP_DD_OM3_LEN_OFFSET, "Length (OM3 50/125um)", 2, "m")
    \o sff_show_value_with_unit(mem, QSFP_DD_OM2_LEN_OFFSET, "Length (OM2 50/125um)", 1, "m")

\* qsfp_dd_show_vendor_info
VendorInfoItems(mem) ==
    sff_show_ascii(mem, QSFP_DD_VENDOR_NAME_START_OFFSET,
                   QSFP_DD_VENDOR_NAME_END_OFFSET, "Vendor name")
    \o OuiItems(mem)
    \o sff_show_ascii(mem, QSFP_DD_VENDOR_PN_START_OFFSET,
                      QSFP_DD_VENDOR_PN_END_OFFSET, "Vendor PN")
    \o sff_show_ascii(mem, QSFP_DD_VENDOR_REV_START_OFFSET,
                      QSFP_DD_VENDOR_REV_END_OFFSET, "Vendor rev")
    \o sff_show_ascii(mem, QSFP_DD_VENDOR_SN_START_OFFSET,
                      QSFP_DD_VENDOR_SN_END_OFFSET, "Vendor SN")
    \o sff_show_ascii(mem, QSFP_DD_DATE_YEAR_OFFSET,
                      QSFP_DD_DATE_VENDOR_LOT_OFFSET + 1, "Date code")
    \o <<Item(<<QSFP_DD_CLEI_PRESENT_BYTE>>, <<>>)>>
    \o IF BitAnd(mem[QSFP_DD_CLEI_PRESENT_BYTE], QSFP_DD_CLEI_PRESENT_MASK) # 0
       THEN sff_show_ascii(mem, QSFP_DD_CLEI_START_OFFSET,
                           QSFP_DD_CLEI_END_OFFSET, "CLEI code")
       ELSE <<>>

(***************************************************************************)
(* struct qsfp_dd_diags and qsfp_dd_parse_diagnostics.                     *)
(***************************************************************************)
\* struct qsfp_dd_diags sd = { { 0 } };
ZeroDiags ==
    [sfp_voltage |-> [c \in Classes |-> 0],
     sfp_temp    |-> [c \in Classes |-> 0],
     bias_cur    |-> [c \in Classes |-> 0],
     tx_power    |-> [c \in Classes |-> 0],
     rx_power    |-> [c \in Classes |-> 0],
     rxaw        |-> [ch \in Channels |-> [c \in Classes |-> FALSE]],
     txaw        |-> [ch \in Channels |-> [c \in Classes |-> FALSE]],
     scd         |-> [ch \in Channels |->
                         [bias_cur |-> 0, rx_power |-> 0, tx_power |-> 0]]]

\* __u8 cmsk = (1 << ch);
ChannelMask_next(ch) == ShiftL(1, ch + 1) % 256
ChannelMask(ch) == ShiftL(1, ch) % 256

\* The byte qsfp_dd_read_aw_for_channel reads for a direction and a class.
AwOffset(mode, c) ==
    IF mode = QSFP_DD_READ_TX
    THEN CASE c = HA -> QSFP_DD_TX_HA_OFFSET
           [] c = LA -> QSFP_DD_TX_LA_OFFSET
           [] c = HW -> QSFP_DD_TX_HW_OFFSET
           [] c = LW -> QSFP_DD_TX_LW_OFFSET
    ELSE CASE c = HA -> QSFP_DD_RX_HA_OFFSET
           [] c = LA -> QSFP_DD_RX_LA_OFFSET
           [] c = HW -> QSFP_DD_RX_HW_OFFSET
           [] c = LW -> QSFP_DD_RX_LW_OFFSET

\* qsfp_dd_read_aw_for_channel(id, ch, mode, sd): the four flags it stores
\* in sd->txaw[ch] (mode QSFP_DD_READ_TX) or sd->rxaw[ch]; a bool holds
\* whether the masked byte is non-zero.
qsfp_dd_read_aw_for_channel(mem, ch, mode) ==
    [c \in Classes |-> BitAnd(mem[AwOffset(mode, c)], ChannelMask(ch)) # 0]

\* START_OFFSET + (i << 1) for lane i
LaneOffset_stride1(base, i) == base + i
LaneOffset(base, i) == base + ShiftL(i, 1)

\* THRS_START_OFFSET + (i << 1) for class i
ThrsOffset_stride1(base, i) == base + i
ThrsOffset(base, i) == base + ShiftL(i, 1)

\* qsfp_dd_parse_diagnostics(id, &sd): the struct it fills.
qsfp_dd_parse_diagnostics(mem) ==
    [sfp_voltage |-> [c \in Classes |->
         OFFSET_TO_U16(mem, ThrsOffset(QSFP_DD_VOLT_THRS_START_OFFSET, c))],
     sfp_temp    |-> [c \in Classes |->
         OFFSET_TO_TEMP(mem, ThrsOffset(QSFP_DD_TEMP_THRS_START_OFFSET, c))],
     bias_cur    |-> [c \in Classes |->
         OFFSET_TO_U16(mem, ThrsOffset(QSFP_DD_TXBI_THRS_START_OFFSET, c))],
     tx_power    |-> [c \in Classes |->
         OFFSET_TO_U16(mem, ThrsOffset(QSFP_DD_TXPW_THRS_START_OFFSET, c))],
     rx_power    |-> [c \in Classes |->
         OFFSET_TO_U16(mem, ThrsOffset(QSFP_DD_RXPW_THRS_START_OFFSET, c))],
     rxaw        |-> [ch \in Channels |->
         qsfp_dd_read_aw_for_channel(mem, ch, QSFP_DD_READ_RX)],
     txaw        |-> [ch \in Channels |->
         qsfp_dd_read_aw_for_channel(mem, ch, QSFP_DD_READ_TX)],
     scd         |-> [ch \in Channels |->
         [bias_cur |-> OFFSET_TO_U16(mem, LaneOffset(QSFP_DD_TX_BIAS_START_OFFSET, ch)),
          rx_power |-> OFFSET_TO_U16(mem, LaneOffset(QSFP_DD_RX_PWR_START_OFFSET, ch)),
          tx_power |-> OFFSET_TO_U16(mem, LaneOffset(QSFP_DD_TX_PWR_START_OFFSET, ch))]]]

RECURSIVE Flatten(_)
\* The bodies of a for loop, one after the other.
Flatten(ss) == IF ss = <<>> THEN <<>> ELSE Head(ss) \o Flatten(Tail(ss))

U16Offs(o) == <<o, o + 1>>

\* The byte indexes qsfp_dd_parse_diagnostics reads, in program order.
ParseLaneOffs(i) ==
    U16Offs(LaneOffset(QSFP_DD_TX_BIAS_START_OFFSET, i))
    \o U16Offs(LaneOffset(QSFP_DD_RX_PWR_START_OFFSET, i))
    \o U16Offs(LaneOffset(QSFP_DD_TX_PWR_START_OFFSET, i))
    \o <<AwOffset(QSFP_DD_READ_TX, HA), AwOffset(QSFP_DD_READ_TX, LA),
         AwOffset(QSFP_DD_READ_TX, HW), AwOffset(QSFP_DD_READ_TX, LW)>>
    \o <<AwOffset(QSFP_DD_READ_RX, HA), AwOffset(QSFP_DD_READ_RX, LA),
         AwOffset(QSFP_DD_READ_RX, HW), AwOffset(QSFP_DD_READ_RX, LW)>>

ParseThrsOffs(i) ==
    U16Offs(ThrsOffset(QSFP_DD_TXPW_THRS_START_OFFSET, i))
    \o U16Offs(ThrsOffset(QSFP_DD_RXPW_THRS_START_OFFSET, i))
    \o U16Offs(ThrsOffset(QSFP_DD_TXBI_THRS_START_OFFSET, i))
    \o U16Offs(ThrsOffset(QSFP_DD_TEMP_THRS_START_OFFSET, i))
    \o U16Offs(ThrsOffset(QSFP_DD_VOLT_THRS_START_OFFSET, i))

ParseOffs ==
    Flatten([n \in 1..QSFP_DD_MAX_CHANNELS |-> ParseLaneOffs(n - 1)])
    \o Flatten([n \in 1..4 |-> ParseThrsOffs(n - 1)])

(***************************************************************************)
(* qsfp_dd_show_sig_optical_pwr and qsfp_dd_show_thresholds.               *)
(***************************************************************************)
\* aw_strings[j] with "%s" filled in
AwString(dir, j) ==
    IF dir = "Rx"
    THEN CASE j = HA -> "Rx power high alarm"
           [] j = LA -> "Rx power low alarm"
           [] j = HW -> "Rx power high warning"
           [] j = LW -> "Rx power low warning"
    ELSE CASE j = HA -> "Tx power high alarm"
           [] j = LA -> "Tx power low alarm"
           [] j = HW -> "Tx power high warning"
           [] j = LW -> "Tx power low warning"

\* qsfp_dd_show_thresholds(sd)
qsfp_dd_show_thresholds(d) ==
    <<Line("Laser bias current high alarm threshold", 0, "2uA", d.bias_cur[HA]),
      Line("Laser bias current low alarm threshold", 0, "2uA", d.bias_cur[LA]),
      Line("Laser bias current high warning threshold", 0, "2uA", d.bias_cur[HW]),
      Line("Laser bias current low warning threshold", 0, "2uA", d.bias_cur[LW]),
      Line("Laser output power high alarm threshold", 0, "pwr", d.tx_power[HA]),
      Line("Laser output power low alarm threshold", 0, "pwr", d.tx_power[LA]),
      Line("Laser output power high warning threshold", 0, "pwr", d.tx_power[HW]),
      Line("Laser output power low warning threshold", 0, "pwr", d.tx_power[LW]),
      Line("Module temperature high alarm threshold", 0, "degC_256", d.sfp_temp[HA]),
      Line("Module temperature low alarm threshold", 0, "degC_256", d.sfp_temp[LA]),
      Line("Module temperature high warning threshold", 0, "degC_256", d.sfp_temp[HW]),
      Line("Module temperature low warning threshold", 0, "degC_256", d.sfp_temp[LW]),
      Line("Module voltage high alarm threshold", 0, "100uV", d.sfp_voltage[HA]),
      Line("Module voltage low alarm threshold", 0, "100uV", d.sfp_voltage[LA]),
      Line("Module voltage high warning threshold", 0, "100uV", d.sfp_voltage[HW]),
      Line("Module voltage low warning threshold", 0, "100uV", d.sfp_voltage[LW]),
      Line("Laser rx power high alarm threshold", 0, "pwr", d.rx_power[HA]),
      Line("Laser rx power low alarm threshold", 0, "pwr", d.rx_power[LA]),
      Line("Laser rx power high warning threshold", 0, "pwr", d.rx_power[HW]),
      Line("Laser rx power low warning threshold", 0, "pwr", d.rx_power[LW])>>

BiasLine(d, i) == <<Line("Tx bias current monitor", i + 1, "2uA", d.scd[i].bias_cur)>>
TxPwrLine(d, i) == <<Line("Tx output optical power", i + 1, "pwr", d.scd[i].tx_power)>>
RxPwrLine(d, i) == <<Line("Rx input optical power", i + 1, "pwr", d.scd[i].rx_power)>>

\* The inner loops over j of the two alarm/warning print loops: both print
\* ONOFF(sd.rxaw[i][j]).
RxAwLines(d, i) ==
    [j \in 1..4 |-> Line(AwString("Rx", j - 1), i + 1, "onoff",
                         ONOFF(IF d.rxaw[i][j - 1] THEN 1 ELSE 0))]
TxAwLines(d, i) ==
    [j \in 1..4 |-> Line(AwString("Tx", j - 1), i + 1, "onoff",
                         ONOFF(IF d.rxaw[i][j - 1] THEN 1 ELSE 0))]

\* Everything qsfp_dd_show_sig_optical_pwr prints after the extraction.
DiagLines(d) ==
    Flatten([n \in 1..QSFP_DD_MAX_CHANNELS |-> BiasLine(d, n - 1)])
    \o Flatten([n \in 1..QSFP_DD_MAX_CHANNELS |-> TxPwrLine(d, n - 1)])
    \o Flatten([n \in 1..QSFP_DD_MAX_CHANNELS |-> RxPwrLine(d, n - 1)])
    \o Flatten([n \in 1..QSFP_DD_MAX_CHANNELS |-> RxAwLines(d, n - 1)])
    \o Flatten([n \in 1..QSFP_DD_MAX_CHANNELS |-> TxAwLines(d, n - 1)])
    \o qsfp_dd_show_thresholds(d)

\* if (module_type != QSFP_DD_MT_MMF && module_type != QSFP_DD_MT_SMF &&
\*     eeprom_len != QSFP_DD_EEPROM_5PAG) return;
GateReturns(module_type, len) ==
    /\ module_type # QSFP_DD_MT_MMF
    /\ module_type # QSFP_DD_MT_SMF
    /\ len # QSFP_DD_EEPROM_5PAG

\* The current temperature and voltage lines, printed before the gate.
CurrentItems(mem) ==
    <<Item(<<QSFP_DD_MODULE_TYPE_OFFSET>>, <<>>),
      Item(U16Offs(QSFP_DD_CURR_TEMP_OFFSET),
           <<Line("Module temperature", 0, "degC_256",
                  OFFSET_TO_TEMP(mem, QSFP_DD_CURR_TEMP_OFFSET))>>),
      Item(U16Offs(QSFP_DD_CURR_CURR_OFFSET),
           <<Line("Module voltage", 0, "100uV",
                  OFFSET_TO_U16(mem, QSFP_DD_CURR_CURR_OFFSET))>>)>>

\* qsfp_dd_show_sig_optical_pwr(id, eeprom_len)
SigOpticalPwrItems(mem, len) ==
    CurrentItems(mem)
    \o IF GateReturns(mem[QSFP_DD_MODULE_TYPE_OFFSET], len)
       THEN <<>>
       ELSE <<Item(ParseOffs, <<>>),
              Item(<<>>, DiagLines(qsfp_dd_parse_diagnostics(mem)))>>

(***************************************************************************)
(* The buffers a call is given.  Each family varies one field over all its *)
(* values (or over the listed samples) on top of a fill pattern.           *)
(***************************************************************************)
MemTop == QSFP_DD_EEPROM_5PAG

Seeds == 0..MaxSeed

\* A fill pattern: neighbouring bytes differ, and so do the two bytes of
\* every 16-bit field.
Pattern(seed) == [o \in 0..(MemTop - 1) |-> (o * 37 + (o \div 16) * 5 + seed * 101 + 11) % 256]

\* Sample bytes for the two halves of a 16-bit field.
WordSamples == {0, 1, 25, 127, 128, 255}

\* Sample bytes for one alarm/warning byte.
AwSamples == {0, 1, 90, 128, 165, 255}

WithByte(mem, o, v) == [mem EXCEPT ![o] = v]

CblFamily ==
    {WithByte(Pattern(s), QSFP_DD_CBL_ASM_LEN_OFFSET, v) : s \in Seeds, v \in Byte}

TechFamily ==
    {WithByte(Pattern(s), QSFP_DD_MEDIA_INTF_TECH_OFFSET, v) : s \in Seeds, v \in Byte}

ModuleTypeFamily ==
    {WithByte(Pattern(s), QSFP_DD_MODULE_TYPE_OFFSET, v) : s \in Seeds, v \in Byte}

FiberTypes == {QSFP_DD_MT_MMF, QSFP_DD_MT_SMF}

TempFamily ==
    {WithByte(WithByte(WithByte(Pattern(s), QSFP_DD_MODULE_TYPE_OFFSET, mt),
                       QSFP_DD_CURR_TEMP_OFFSET, hi),
              QSFP_DD_CURR_TEMP_OFFSET + 1, lo) :
        s \in Seeds, mt \in FiberTypes, hi \in WordSamples, lo \in WordSamples}

AwFamily ==
    {WithByte(WithByte(Pattern(s), QSFP_DD_MODULE_TYPE_OFFSET, mt),
              AwOffset(mode, c), v) :
        s \in Seeds, mt \in FiberTypes,
        mode \in {QSFP_DD_READ_TX, QSFP_DD_READ_RX}, c \in Classes, v \in AwSamples}

\* Every value of the SMF link-length byte.
SmfFamily ==
    {WithByte(Pattern(s), QSFP_DD_SMF_LEN_OFFSET, v) : s \in Seeds, v \in Byte}

\* The five threshold tables of page 0x02, as the header lists them.
ThrsBases ==
    {QSFP_DD_TEMP_THRS_START_OFFSET, QSFP_DD_VOLT_THRS_START_OFFSET,
     QSFP_DD_TXPW_THRS_START_OFFSET, QSFP_DD_TXBI_THRS_START_OFFSET,
     QSFP_DD_RXPW_THRS_START_OFFSET}

\* One threshold word set to a sample (most significant byte w, the other
\* 255 - w), in an SMF module.
ThrsFamily ==
    {WithByte(WithByte(WithByte(Pattern(s), QSFP_DD_MODULE_TYPE_OFFSET, QSFP_DD_MT_SMF),
                       b + 2 * c, w),
              b + 2 * c + 1, 255 - w) :
        s \in Seeds, b \in ThrsBases, c \in Classes, w \in WordSamples}

Buffers ==
    CblFamily \cup TechFamily \cup ModuleTypeFamily \cup TempFamily \cup AwFamily
        \cup SmfFamily \cup ThrsFamily

\* The two lengths the caller hands in: page 0 alone, or all six pages.
Lengths == {2 * QSFP_DD_PAG_SIZE, QSFP_DD_EEPROM_5PAG}

(***************************************************************************)
(* The call qsfp_dd_show_all(id, eeprom_len).                              *)
(***************************************************************************)
Init ==
    /\ id \in Buffers
    /\ eeprom_len \in Lengths
    /\ pc = "identifier"
    /\ status = "running"
    /\ reads = {}
    /\ out = <<>>
    /\ sd = ZeroDiags
    /\ parsed = FALSE

\* The step at `here` runs to its end: every read returned a byte.
Complete(here, next, items, nsd, npar) ==
    /\ pc = here
    /\ status = "running"
    /\ pc' = next
    /\ status' = (IF next = "done" THEN "done" ELSE "running")
    /\ out' = out \o AllFlds(items)
    /\ reads' = reads \cup AllOffs(items)
    /\ sd' = nsd
    /\ parsed' = npar
    /\ UNCHANGED <<id, eeprom_len>>

\* The step at `here` faults at its first read past the buffer: the lines
\* of the items before it are out, and the process is gone.
Fault(here, items, npar) ==
    /\ pc = here
    /\ status = "running"
    /\ HasOOB(items, eeprom_len)
    /\ LET k == FirstOOBItem(items, eeprom_len)
           before == SubSeq(items, 1, k - 1)
       IN /\ out' = out \o AllFlds(before)
          /\ reads' = reads \cup AllOffs(before)
                          \cup OffsUntilOOB(items[k].offs, eeprom_len)
    /\ pc' = pc
    /\ status' = "fault"
    /\ sd' = sd
    /\ parsed' = npar
    /\ UNCHANGED <<id, eeprom_len>>

qsfp_dd_show_identifier ==
    Complete("identifier", "power_info", IdentifierItems(id), sd, parsed)

qsfp_dd_show_power_info ==
    Complete("power_info", "connector", PowerInfoItems(id), sd, parsed)

qsfp_dd_show_connector ==
    Complete("connector", "cbl_asm_len", ConnectorItems(id), sd, parsed)

qsfp_dd_show_cbl_asm_len ==
    Complete("cbl_asm_len", "sig_integrity", CblAsmLenItems(id), sd, parsed)

qsfp_dd_show_sig_integrity ==
    \/ Complete("sig_integrity", "mit_compliance", SigIntegrityItems(id), sd, parsed)
    \/ Fault("sig_integrity", SigIntegrityItems(id), parsed)

qsfp_dd_show_mit_compliance ==
    \/ Complete("mit_compliance", "sig_optical_pwr", MitComplianceItems(id), sd, parsed)
    \/ Fault("mit_compliance", MitComplianceItems(id), parsed)

\* The struct is filled, and the extraction counts as run, exactly when the
\* gate does not return; the only reads past the buffer of this step are
\* those of qsfp_dd_parse_diagnostics.
qsfp_dd_show_sig_optical_pwr ==
    LET ret == GateReturns(id[QSFP_DD_MODULE_TYPE_OFFSET], eeprom_len)
    IN \/ Complete("sig_optical_pwr", "link_len", SigOpticalPwrItems(id, eeprom_len),
                   IF ret THEN ZeroDiags ELSE qsfp_dd_parse_diagnostics(id), ~ret)
       \/ Fault("sig_optical_pwr", SigOpticalPwrItems(id, eeprom_len), ~ret)

qsfp_dd_show_link_len ==
    \/ Complete("link_len", "vendor_info", LinkLenItems(id), sd, parsed)
    \/ Fault("link_len", LinkLenItems(id), parsed)

qsfp_dd_show_vendor_info ==
    Complete("vendor_info", "rev_compliance", VendorInfoItems(id), sd, parsed)

qsfp_dd_show_rev_compliance ==
    Complete("rev_compliance", "done", RevComplianceItems(id), sd, parsed)

\* qsfp_dd_show_all
Next ==
    \/ qsfp_dd_show_identifier
    \/ qsfp_dd_show_power_info
    \/ qsfp_dd_show_connector
    \/ qsfp_dd_show_cbl_asm_len
    \/ qsfp_dd_show_sig_integrity
    \/ qsfp_dd_show_mit_compliance
    \/ qsfp_dd_show_sig_optical_pwr
    \/ qsfp_dd_show_link_len
    \/ qsfp_dd_show_vendor_info
    \/ qsfp_dd_show_rev_compliance

Spec == Init /\ [][Next]_vars

\* The same call on the single-mode buffers that vary the alarm/warning
\* bytes, and on one optical-technology buffer per fill pattern.
AwBuffers ==
    {b \in AwFamily : b[QSFP_DD_MODULE_TYPE_OFFSET] = QSFP_DD_MT_SMF}
        \cup {WithByte(Pattern(s), QSFP_DD_MEDIA_INTF_TECH_OFFSET,
                       QSFP_DD_COPPER_UNEQUAL - 1) : s \in Seeds}

InitAw ==
    /\ id \in AwBuffers
    /\ eeprom_len \in Lengths
    /\ pc = "identifier"
    /\ status = "running"
    /\ reads = {}
    /\ out = <<>>
    /\ sd = ZeroDiags
    /\ parsed = FALSE

SpecAw == InitAw /\ [][Next]_vars

(***************************************************************************)
(* Vocabulary of the properties.                                           *)
(***************************************************************************)
\* The place of each call in qsfp_dd_show_all.
Rank(p) ==
    CASE p = "identifier" -> 1
      [] p = "power_info" -> 2
      [] p = "connector" -> 3
      [] p = "cbl_asm_len" -> 4
      [] p = "sig_integrity" -> 5
      [] p = "mit_compliance" -> 6
      [] p = "sig_optical_pwr" -> 7
      [] p = "link_len" -> 8
      [] p = "vendor_info" -> 9
      [] p = "rev_compliance" -> 10
      [] p = "done" -> 11

\* The call named step has returned.
Returned(step) == Rank(pc) > Rank(step)

\* The printed lines named f, and the values printed for f on channel ch.
LinesOf(f) == SelectSeq(out, LAMBDA l : l.f = f)
ValuesOf(f, ch) == {out[i].v : i \in {j \in DOMAIN out : out[j].f = f /\ out[j].ch = ch}}

ModuleType == id[QSFP_DD_MODULE_TYPE_OFFSET]
IsFiber == ModuleType \in FiberTypes

\* The names of the lines only the diagnostics extraction gives rise to.
ChannelLineNames ==
    {"Tx bias current monitor", "Tx output optical power", "Rx input optical power"}
AwLineNames ==
    {AwString(d, j) : d \in {"Rx", "Tx"}, j \in Classes}
DiagLineNames ==
    ChannelLineNames \cup AwLineNames
        \cup {qsfp_dd_show_thresholds(ZeroDiags)[i].f : i \in 1..20}

NoDiagnostics ==
    /\ ~parsed
    /\ sd = ZeroDiags
    /\ \A i \in DOMAIN out : out[i].f \notin DiagLineNames

\* Two bytes, most significant first.
BigEndian(o) == id[o] * 256 + id[o + 1]

(***************************************************************************)
(* C1.  A 256-byte buffer never gets the diagnostics extraction, whatever  *)
(* its module-type byte is: qsfp_dd_parse_diagnostics is not run, the      *)
(* struct stays zero and no channel, alarm/warning or threshold line is    *)
(* printed.  (That the call also ends normally is the subject of C3.)      *)
(***************************************************************************)
C1_NoDiagnosticsOn256 ==
    eeprom_len = 2 * QSFP_DD_PAG_SIZE => NoDiagnostics

(***************************************************************************)
(* C2.  A 768-byte buffer whose module type is neither MMF nor SMF never   *)
(* gets the diagnostics extraction.                                        *)
(***************************************************************************)
C2_NoDiagnosticsOnNonFiber ==
    (eeprom_len = QSFP_DD_EEPROM_5PAG /\ ~IsFiber) => NoDiagnostics

(***************************************************************************)
(* C3.  Every byte index read during the call is below the declared        *)
(* length.                                                                 *)
(***************************************************************************)
C3_ReadsBelowLength ==
    \A o \in reads : o < eeprom_len

(***************************************************************************)
(* C4.  A call that needed a byte at or past the declared length has not   *)
(* read it, has ended in the OutOfRange outcome and has printed nothing.   *)
(***************************************************************************)
Outcome ==
    CASE status = "done" -> "Report"
      [] status = "fault" -> "Fault"
      [] OTHER -> "Running"

\* The byte indexes the call has needed so far: those it read or tried to.
Needed == reads

\* C4: once a needed byte index is at or past eeprom_len, the outcome is
\* OutOfRange, nothing is printed and no such index is read.
C4_OutOfRangeNoPartialReport ==
    (\E o \in Needed : o >= eeprom_len) =>
        /\ Outcome = "OutOfRange"
        /\ out = <<>>
        /\ \A o \in reads : o < eeprom_len

(***************************************************************************)
(* C5.  Cable assembly length: the low six bits times 0.1, 1, 10 or 100 km *)
(* as the top two bits are 00, 01, 10 or 11 (printed to 0.01 km, so times  *)
(* 10, 100, 1000 or 10000 in that unit).                                   *)
(***************************************************************************)
CblByte == id[QSFP_DD_CBL_ASM_LEN_OFFSET]
CblMagnitude == CblByte % 64
CblCode == CblByte \div 64
CblScale == <<10, 100, 1000, 10000>>

CblLengthDecoded ==
    /\ Len(LinesOf("Cable assembly length")) = 1
    /\ LinesOf("Cable assembly length")[1].k = "km_e2"
    /\ LinesOf("Cable assembly length")[1].v = CblMagnitude * CblScale[CblCode + 1]

\* C5 as claimed: for every magnitude 1..63 and every multiplier code the
\* printed length is magnitude times the scale of the code.
C5_EveryMagnitudeAndCode ==
    (Returned("cbl_asm_len") /\ CblMagnitude \in 1..63) => CblLengthDecoded

\* C5 as amended: the same for every such byte but the reserved 0xFF.
C5_EveryMagnitudeAndCodeButMax ==
    (Returned("cbl_asm_len") /\ CblMagnitude \in 1..63
        /\ CblByte # QSFP_DD_6300M_MAX_LEN) => CblLengthDecoded

C5_Witness ==
    /\ Returned("cbl_asm_len")
    /\ CblCode = 3
    /\ CblMagnitude = 62
    /\ ValuesOf("Cable assembly length", 0) = {620000}

(***************************************************************************)
(* C6.  The byte 0xFF, and no other, gives the "> 6.3km" line, and then no *)
(* length is computed from its bits.                                       *)
(***************************************************************************)
C6_SentinelIffMaxByte ==
    Returned("cbl_asm_len") =>
        /\ Len(LinesOf("Cable assembly length")) = 1
        /\ (LinesOf("Cable assembly length")[1].k = "gt_6.3km")
               <=> (CblByte = 255)
        /\ (LinesOf("Cable assembly length")[1].k = "km_e2")
               <=> (CblByte # 255)

C6_Witness ==
    /\ Returned("cbl_asm_len")
    /\ CblByte = 255
    /\ LinesOf("Cable assembly length")[1].k = "gt_6.3km"

(***************************************************************************)
(* C7.  A 768-byte buffer of a fiber module (MMF or SMF): the call never   *)
(* faults, and once qsfp_dd_show_sig_optical_pwr has returned the struct   *)
(* and the printout hold, for each of the 8 lanes i, the big-endian words  *)
(* at the bias, transmit-power and receive-power bases plus 2 * i.         *)
(***************************************************************************)
C7_EightChannelEntries ==
    (eeprom_len = QSFP_DD_EEPROM_5PAG /\ IsFiber) =>
        /\ status # "fault"
        /\ Returned("sig_optical_pwr") =>
            /\ parsed
            /\ DOMAIN sd.scd = 0..7
            /\ \A i \in 0..7 :
                /\ sd.scd[i].bias_cur = BigEndian(QSFP_DD_TX_BIAS_START_OFFSET + 2 * i)
                /\ sd.scd[i].tx_power = BigEndian(QSFP_DD_TX_PWR_START_OFFSET + 2 * i)
                /\ sd.scd[i].rx_power = BigEndian(QSFP_DD_RX_PWR_START_OFFSET + 2 * i)
                /\ ValuesOf("Tx bias current monitor", i + 1) = {sd.scd[i].bias_cur}
                /\ ValuesOf("Tx output optical power", i + 1) = {sd.scd[i].tx_power}
                /\ ValuesOf("Rx input optical power", i + 1) = {sd.scd[i].rx_power}
            /\ \A f \in ChannelLineNames : Len(LinesOf(f)) = 8

C7_Witness ==
    /\ status = "done"
    /\ eeprom_len = QSFP_DD_EEPROM_5PAG
    /\ ModuleType = QSFP_DD_MT_SMF
    /\ parsed
    /\ Len(LinesOf("Rx input optical power")) = 8
    /\ sd.scd[7].rx_power = BigEndian(QSFP_DD_RX_PWR_START_OFFSET + 14)
    /\ sd.scd[7].rx_power # sd.scd[6].rx_power

(***************************************************************************)
(* C8.  In the extracted struct, flipping bit k of the alarm/warning byte  *)
(* of one direction and class changes the flag of lane k for that          *)
(* direction and class, and nothing else in the struct.                    *)
(***************************************************************************)
Modes == {QSFP_DD_READ_TX, QSFP_DD_READ_RX}

\* The buffer with bit k of the byte at o inverted.
FlipBit(mem, o, k) ==
    [mem EXCEPT ![o] = IF (@ \div Pow2(k)) % 2 = 1 THEN @ - Pow2(k) ELSE @ + Pow2(k)]

\* The flags of a struct for one direction.
AwOf(d, mode) == IF mode = QSFP_DD_READ_TX THEN d.txaw ELSE d.rxaw

\* All of a struct but its alarm/warning flags.
RestOf(d) == <<d.sfp_voltage, d.sfp_temp, d.bias_cur, d.tx_power, d.rx_power, d.scd>>

\* C8: for every direction, class and bit k, the struct extracted from the
\* buffer with that one bit flipped differs from sd in exactly the flag of
\* lane k for that direction and class.
C8_AlarmBitIndependence ==
    (pc = "link_len" /\ status = "running" /\ parsed) =>
        \A mode \in Modes, c \in Classes, k \in Channels :
            \A d2 \in {qsfp_dd_parse_diagnostics(FlipBit(id, AwOffset(mode, c), k))} :
                /\ RestOf(d2) = RestOf(sd)
                /\ \A m2 \in Modes, c2 \in Classes, k2 \in Channels :
                       (AwOf(d2, m2)[k2][c2] # AwOf(sd, m2)[k2][c2])
                           <=> (m2 = mode /\ c2 = c /\ k2 = k)

\* Lane 7 alone has its transmit low-warning flag on, lane 0 alone its
\* receive high-alarm flag.
C8_Witness ==
    /\ pc = "link_len"
    /\ status = "running"
    /\ parsed
    /\ id[QSFP_DD_TX_LW_OFFSET] = 128
    /\ \A k \in Channels : sd.txaw[k][LW] <=> (k = 7)

(***************************************************************************)
(* C9.  Once qsfp_dd_show_mit_compliance has returned: a technology code   *)
(* of 0x0A or more has given the four attenuation lines and no wavelength  *)
(* line, and the wavelength bytes are never read; a code below 0x0A has    *)
(* given the two wavelength lines and no attenuation line, and the         *)
(* attenuation bytes are never read.                                       *)
(***************************************************************************)
Tech == id[QSFP_DD_MEDIA_INTF_TECH_OFFSET]

AttLineNames ==
    {"Attenuation at 5GHz", "Attenuation at 7GHz",
     "Attenuation at 12.9GHz", "Attenuation at 25.8GHz"}
WlLineNames == {"Laser wavelength", "Laser wavelength tolerance"}

AttOffs == {QSFP_DD_COPPER_ATT_5GHZ, QSFP_DD_COPPER_ATT_7GHZ,
            QSFP_DD_COPPER_ATT_12P9GHZ, QSFP_DD_COPPER_ATT_25P8GHZ}
WlOffs == {QSFP_DD_NOM_WAVELENGTH_MSB, QSFP_DD_NOM_WAVELENGTH_LSB,
           QSFP_DD_WAVELENGTH_TOL_MSB, QSFP_DD_WAVELENGTH_TOL_LSB}

Reported(names) == \A f \in names : Len(LinesOf(f)) = 1
Absent(names) == \A f \in names : Len(LinesOf(f)) = 0

\* C9: exactly one of the two families is read and printed, chosen by
\* whether the technology code is at least 0x0A.
C9_ExactlyOneFamily ==
    /\ Tech >= 10 => reads \cap WlOffs = {}
    /\ Tech < 10 => reads \cap AttOffs = {}
    /\ Returned("mit_compliance") =>
        /\ Tech >= 10 =>
            /\ Reported(AttLineNames)
            /\ Absent(WlLineNames)
            /\ AttOffs \subseteq reads
        /\ Tech < 10 =>
            /\ Reported(WlLineNames)
            /\ Absent(AttLineNames)
            /\ WlOffs \subseteq reads

C9_WitnessCopper ==
    /\ status = "done"
    /\ Tech = 10
    /\ Reported(AttLineNames)
    /\ Absent(WlLineNames)

C9_WitnessOptical ==
    /\ status = "done"
    /\ Tech = 9
    /\ Reported(WlLineNames)
    /\ Absent(AttLineNames)

(***************************************************************************)
(* C10.  The current temperature printed is the signed 16-bit value of the *)
(* bytes at 0x0E (most significant) and 0x0F, in 1/256 degC.               *)
(***************************************************************************)
TempHi == id[14]
TempLo == id[15]

SignedWord(hi, lo) == IF hi < 128 THEN hi * 256 + lo ELSE hi * 256 + lo - 65536

\* C10: the "Module temperature" line holds hi * 256 + lo, less 65536 when
\* hi >= 0x80; {0x19, 0x80} gives 6528 and {0xFF, 0x00} gives -256.
C10_CurrentTemperature ==
    Returned("sig_optical_pwr") =>
        /\ ValuesOf("Module temperature", 0) = {SignedWord(TempHi, TempLo)}
        /\ (TempHi = 25 /\ TempLo = 128) => ValuesOf("Module temperature", 0) = {6528}
        /\ (TempHi = 255 /\ TempLo = 0) => ValuesOf("Module temperature", 0) = {-256}

C10_Witness ==
    /\ Returned("sig_optical_pwr")
    /\ TempHi = 255
    /\ TempLo = 0
    /\ ValuesOf("Module temperature", 0) = {-256}

(***************************************************************************)
(* C11.  The SMF link-length byte (page 0x01, local 0x84).  As claimed it  *)
(* is decoded like the cable assembly length: the low six bits times 0.1,  *)
(* 1, 10 or 100 km as the top two bits are 00, 01, 10 or 11.               *)
(***************************************************************************)
SmfByte == id[QSFP_DD_SMF_LEN_OFFSET]
SmfMagnitude == SmfByte % 64
SmfCode == SmfByte \div 64

SmfLengthPrinted(v) ==
    /\ Len(LinesOf("Length (SMF)")) = 1
    /\ LinesOf("Length (SMF)")[1].k = "km_e2"
    /\ LinesOf("Length (SMF)")[1].v = v

\* C11: the "Length (SMF)" line holds the magnitude times the scale of the
\* four-entry table, code 10 giving times 10 and code 11 times 100, as for
\* the cable assembly length (0x81 is 10 km).
C11_SmfFourScales ==
    Returned("link_len") => SmfLengthPrinted(SmfMagnitude * CblScale[SmfCode + 1])

(***************************************************************************)
(* C12.  Once the diagnostics are extracted and printed, the status        *)
(* printed for transmit class c on channel k is On exactly when bit k of   *)
(* the transmit byte of class c (page 0x11, local 0x8B + c) is set,        *)
(* whatever the receive bytes hold; and the status printed for receive     *)
(* class c on channel k is On exactly when bit k of the receive byte       *)
(* (local 0x95 + c) is set.                                                *)
(***************************************************************************)
TxAwByte(c) == id[QSFP_DD_TX_HA_OFFSET + c]
RxAwByte(c) == id[QSFP_DD_RX_HA_OFFSET + c]

\* Bit k of a byte, as the 1 (On) or 0 (Off) of a printed status.
BitOf(b, k) == (b \div Pow2(k)) % 2

C12_ReportedStatusOwnDirection ==
    (parsed /\ Returned("sig_optical_pwr")) =>
        \A k \in Channels, c \in Classes :
            /\ ValuesOf(AwString("Tx", c), k + 1) = {BitOf(TxAwByte(c), k)}
            /\ ValuesOf(AwString("Rx", c), k + 1) = {BitOf(RxAwByte(c), k)}

(***************************************************************************)
(* C13.  Once the diagnostics are extracted, the threshold of class c of   *)
(* each of the five quantities is the big-endian word at the base of the   *)
(* quantity plus 2 * c (page 0x02: temperature at local 0x80, voltage      *)
(* 0x88, transmit power 0xB0, bias 0xB8, receive power 0xC0), signed for   *)
(* the temperature and unsigned for the others; the classes 0..3 are high  *)
(* alarm, low alarm, high warning, low warning; a threshold is a function  *)
(* of its own two bytes.                                                   *)
(***************************************************************************)
\* The names of the threshold lines of a quantity, by class.
BiasThrsNames ==
    <<"Laser bias current high alarm threshold",
      "Laser bias current low alarm threshold",
      "Laser bias current high warning threshold",
      "Laser bias current low warning threshold">>
TxPwrThrsNames ==
    <<"Laser output power high alarm threshold",
      "Laser output power low alarm threshold",
      "Laser output power high warning threshold",
      "Laser output power low warning threshold">>
TempThrsNames ==
    <<"Module temperature high alarm threshold",
      "Module temperature low alarm threshold",
      "Module temperature high warning threshold",
      "Module temperature low warning threshold">>
VoltThrsNames ==
    <<"Module voltage high alarm threshold",
      "Module voltage low alarm threshold",
      "Module voltage high warning threshold",
      "Module voltage low warning threshold">>
RxPwrThrsNames ==
    <<"Laser rx power high alarm threshold",
      "Laser rx power low alarm threshold",
      "Laser rx power high warning threshold",
      "Laser rx power low warning threshold">>

\* The word of class c in the table at base, unsigned and signed.
ThrsWord(base, c) == BigEndian(base + 2 * c)
ThrsSignedWord(base, c) == SignedWord(id[base + 2 * c], id[base + 2 * c + 1])

C13_ThresholdsPerClass ==
    (parsed /\ Returned("sig_optical_pwr")) =>
        /\ DOMAIN sd.sfp_temp = 0..3
        /\ \A c \in 0..3 :
            /\ sd.sfp_temp[c] = ThrsSignedWord(QSFP_DD_TEMP_THRS_START_OFFSET, c)
            /\ sd.sfp_voltage[c] = ThrsWord(QSFP_DD_VOLT_THRS_START_OFFSET, c)
            /\ sd.tx_power[c] = ThrsWord(QSFP_DD_TXPW_THRS_START_OFFSET, c)
            /\ sd.bias_cur[c] = ThrsWord(QSFP_DD_TXBI_THRS_START_OFFSET, c)
            /\ sd.rx_power[c] = ThrsWord(QSFP_DD_RXPW_THRS_START_OFFSET, c)
            /\ ValuesOf(TempThrsNames[c + 1], 0) = {sd.sfp_temp[c]}
            /\ ValuesOf(VoltThrsNames[c + 1], 0) = {sd.sfp_voltage[c]}
            /\ ValuesOf(TxPwrThrsNames[c + 1], 0) = {sd.tx_power[c]}
            /\ ValuesOf(BiasThrsNames[c + 1], 0) = {sd.bias_cur[c]}
            /\ ValuesOf(RxPwrThrsNames[c + 1], 0) = {sd.rx_power[c]}
        /\ HA = 0 /\ LA = 1 /\ HW = 2 /\ LW = 3

\* The low alarm temperature threshold {0x80, 0x7F} is -32641, and the
\* bytes of the classes next to it are other bytes.
C13_Witness ==
    /\ parsed
    /\ Returned("sig_optical_pwr")
    /\ eeprom_len = QSFP_DD_EEPROM_5PAG
    /\ id[QSFP_DD_TEMP_THRS_START_OFFSET + 2] = 128
    /\ id[QSFP_DD_TEMP_THRS_START_OFFSET + 3] = 127
    /\ sd.sfp_temp[LA] = -32641
    /\ ValuesOf("Module temperature low alarm threshold", 0) = {-32641}
    /\ sd.sfp_temp[HA] # sd.sfp_temp[LA]

(***************************************************************************)
(* C14.  Every byte index read lies in the 128-byte region of the page of  *)
(* its field: 0..255 for a field of page 0, and 128 * (p + 1) up to        *)
(* 128 * (p + 1) + 127 for a field of page index p in {1, 2, 4}, the       *)
(* second byte of every 16-bit field of the 8 lanes and 4 classes          *)
(* included; so no read on a 768-byte buffer reaches 768 and no field      *)
(* read crosses into a neighbouring page.                                  *)
(***************************************************************************)
PageRegion(p) ==
    IF p = 0
    THEN 0..(2 * QSFP_DD_PAG_SIZE - 1)
    ELSE (QSFP_DD_PAG_SIZE * (p + 1))..(QSFP_DD_PAG_SIZE * (p + 1) + QSFP_DD_PAG_SIZE - 1)

\* The byte indexes of the fields the header defines on PAG01H_OFFSET, and
\* of those qsfp_dd_parse_diagnostics reads on PAG02H_OFFSET (4 classes)
\* and on PAG11H_OFFSET (8 lanes).
Page1Fields ==
    {QSFP_DD_SMF_LEN_OFFSET, QSFP_DD_OM5_LEN_OFFSET, QSFP_DD_OM4_LEN_OFFSET,
     QSFP_DD_OM3_LEN_OFFSET, QSFP_DD_OM2_LEN_OFFSET,
     QSFP_DD_SIG_INTEG_TX_OFFSET, QSFP_DD_SIG_INTEG_RX_OFFSET} \cup WlOffs
Page2Fields == Range(Flatten([n \in 1..4 |-> ParseThrsOffs(n - 1)]))
Page4Fields == Range(Flatten([n \in 1..QSFP_DD_MAX_CHANNELS |-> ParseLaneOffs(n - 1)]))

\* The page index of the field a byte index belongs to; every index that
\* is of none of the fields above can only be of a page-0 field.
FieldPage(o) ==
    CASE o \in Page1Fields -> 1
      [] o \in Page2Fields -> 2
      [] o \in Page4Fields -> 4
      [] OTHER -> 0

C14_ReadsWithinOwnPage ==
    /\ \A o \in reads : o \in PageRegion(FieldPage(o))
    /\ Page1Fields \subseteq PageRegion(1)
    /\ Page2Fields \subseteq PageRegion(2)
    /\ Page4Fields \subseteq PageRegion(4)
    /\ Cardinality(Page2Fields) = 5 * 4 * 2
    /\ Cardinality(Page4Fields) = 3 * QSFP_DD_MAX_CHANNELS * 2 + 2 * 4
    /\ (parsed /\ Returned("sig_optical_pwr")) =>
           (Page2Fields \cup Page4Fields) \subseteq reads
    /\ eeprom_len = QSFP_DD_EEPROM_5PAG => \A o \in reads : o < QSFP_DD_EEPROM_5PAG

\* A whole call on 768 bytes that read fields of all four pages, the last
\* byte of the receive power of lane 8 (index 713) among them.
C14_Witness ==
    /\ status = "done"
    /\ eeprom_len = QSFP_DD_EEPROM_5PAG
    /\ parsed
    /\ Tech < 10
    /\ Page1Fields \subseteq reads
    /\ Page2Fields \subseteq reads
    /\ Page4Fields \subseteq reads
    /\ QSFP_DD_RX_PWR_START_OFFSET + 15 \in reads
    /\ QSFP_DD_RXPW_THRS_START_OFFSET + 7 \in reads
    /\ QSFP_DD_CTOR_OFFSET \in reads

====
